---- MODULE Spec2Model ----
(***************************************************************************)
(* Model of bitwise-visualizer: the numeric helpers of utils.ts            *)
(* (bigIntToBytes, parseInput, calculateMinBytes) and the MainContent      *)
(* component of App.tsx (its state, its event handlers and the useMemo     *)
(* chain that derives the displayed values).                               *)
(*                                                                         *)
(* A JavaScript string is a sequence of one-character strings.             *)
(* A JavaScript BigInt is a record [neg, mag]: mag is the magnitude as a   *)
(* little-endian sequence of base-256 digits without most-significant zero *)
(* digits, so every integer has exactly one representation and values of   *)
(* 64 bits and more are exact.                                             *)
(***************************************************************************)
EXTENDS Integers, Sequences, FiniteSets, TLC

VARIABLES
  inputStr, inputType, byteWidth, isLittleEndian, viewUnit, isHelpOpen,
  tooltip,
  rawValue, dynamicByteLength, memoryBytes, interpretations, wordChunks,
  pInput, pType, pResult,
  bValue, bLength, bLittle, bBytes, bMinBytes,
  gByte, gBits,
  done

appVars == <<inputStr, inputType, byteWidth, isLittleEndian, viewUnit,
             isHelpOpen, tooltip>>
derivedVars == <<rawValue, dynamicByteLength, memoryBytes, interpretations,
                 wordChunks>>
parseVars == <<pInput, pType, pResult>>
bytesVars == <<bValue, bLength, bLittle, bBytes, bMinBytes>>
bitsVars == <<gByte, gBits>>
vars == <<appVars, derivedVars, parseVars, bytesVars, bitsVars, done>>

----------------------------------------------------------------------------
(* Bounds *)

\* longest text typed into the input field
MaxInputLen == 19
\* largest tooltip coordinate
MaxCoord == 0
\* longest string handed to parseInput on its own
MaxStrLen == 3
\* most base-256 digits of a value handed to bigIntToBytes on its own
MaxMagLen == 2
\* largest length handed to bigIntToBytes on its own
MaxLength == 4

----------------------------------------------------------------------------
(* BigInt arithmetic *)

RECURSIVE Canon(_)
\* drop the most-significant zero digits
Canon(d) ==
  IF d = <<>> THEN <<>>
  ELSE IF d[Len(d)] = 0 THEN Canon(SubSeq(d, 1, Len(d) - 1))
  ELSE d

MkBig(neg, digits) ==
  LET m == Canon(digits) IN [neg |-> (neg /\ m # <<>>), mag |-> m]

Zero == [neg |-> FALSE, mag |-> <<>>]

RECURSIVE MulAdd(_, _, _)
\* magnitude m * k + c for small k and c
MulAdd(m, k, c) ==
  IF m = <<>>
  THEN IF c = 0 THEN <<>> ELSE <<c % 256>> \o MulAdd(<<>>, k, c \div 256)
  ELSE LET t == Head(m) * k + c
       IN <<t % 256>> \o MulAdd(Tail(m), k, t \div 256)

RECURSIVE MagDec(_)
\* magnitude m - 1, for m > 0
MagDec(m) ==
  IF Head(m) > 0 THEN Canon(<<Head(m) - 1>> \o Tail(m))
  ELSE <<255>> \o MagDec(Tail(m))

MagInc(m) == MulAdd(m, 1, 1)

\* -value
BigNeg(v) == MkBig(~v.neg, v.mag)

\* variant: the low byte of the magnitude, whatever the sign
BitAnd255OfMagnitude(v) ==
  IF v.mag = <<>> THEN 0 ELSE Head(v.mag)

\* value & 0xFFn, as a Number: BigInt bitwise operators act on the infinite
\* two's complement form, where -m is the complement of m - 1
BitAnd255(v) ==
  IF v.mag = <<>> THEN 0
  ELSE IF v.neg
       THEN LET m1 == MagDec(v.mag)
            IN 255 - (IF m1 = <<>> THEN 0 ELSE Head(m1))
       ELSE Head(v.mag)

\* value >> 8n: floor division by 256; for -m it is -(((m - 1) >> 8) + 1)
Shr8(v) ==
  IF v.mag = <<>> THEN Zero
  ELSE IF v.neg
       THEN LET m1 == MagDec(v.mag)
            IN MkBig(TRUE, MagInc(IF m1 = <<>> THEN <<>> ELSE Tail(m1)))
       ELSE MkBig(FALSE, Tail(v.mag))

RECURSIVE Reverse(_)
Reverse(s) ==
  IF s = <<>> THEN <<>> ELSE Reverse(Tail(s)) \o <<Head(s)>>

----------------------------------------------------------------------------
(* utils: bigIntToBytes *)

RECURSIVE PushBytesInclusive(_, _, _, _)
\* variant: the loop runs while i <= length
PushBytesInclusive(bytes, temp, i, length) ==
  IF i <= length
  THEN PushBytesInclusive(Append(bytes, BitAnd255(temp)), Shr8(temp), i + 1,
                          length)
  ELSE bytes

RECURSIVE PushBytes(_, _, _, _)
\* the for loop: bytes.push(Number(temp & 0xFFn)); temp >>= 8n
PushBytes(bytes, temp, i, length) ==
  IF i < length
  THEN PushBytes(Append(bytes, BitAnd255(temp)), Shr8(temp), i + 1, length)
  ELSE bytes

\* variant: the big-endian reversal left out
bigIntToBytesNoReverse(value, length, isLE) ==
  PushBytes(<<>>, value, 0, length)

\* variant: the loop starts at 1
bigIntToBytesShort(value, length, isLE) ==
  LET bytes == PushBytes(<<>>, value, 1, length)
  IN IF ~isLE THEN Reverse(bytes) ELSE bytes

bigIntToBytes(value, length, isLE) ==
  LET bytes == PushBytes(<<>>, value, 0, length)
  IN IF ~isLE THEN Reverse(bytes) ELSE bytes

----------------------------------------------------------------------------
(* utils: parseInput *)

LowerDigits == <<"0", "1", "2", "3", "4", "5", "6", "7", "8", "9",
                 "a", "b", "c", "d", "e", "f">>
UpperDigits == <<"0", "1", "2", "3", "4", "5", "6", "7", "8", "9",
                 "A", "B", "C", "D", "E", "F">>

\* the characters matched by the regular expression class \s
WhiteSpaceChars == {" ", "\t", "\n", "\r"}

IsDigit(c, radix) ==
  \E i \in 1..radix : c = LowerDigits[i] \/ c = UpperDigits[i]

DigitValue(c) ==
  (CHOOSE i \in 1..16 : c = LowerDigits[i] \/ c = UpperDigits[i]) - 1

RECURSIVE RemoveChars(_, _)
\* String.prototype.replace with a global single-character pattern and ''
RemoveChars(s, chars) ==
  IF s = <<>> THEN <<>>
  ELSE IF Head(s) \in chars THEN RemoveChars(Tail(s), chars)
  ELSE <<Head(s)>> \o RemoveChars(Tail(s), chars)

startsWith(s, p) ==
  Len(s) >= Len(p) /\ SubSeq(s, 1, Len(p)) = p

RECURSIVE Accumulate(_, _, _)
\* the mathematical value of a digit string in a radix
Accumulate(acc, ds, radix) ==
  IF ds = <<>> THEN acc
  ELSE Accumulate(MulAdd(acc, radix, DigitValue(Head(ds))), Tail(ds), radix)

SyntaxError == [ok |-> FALSE, val |-> Zero]

ParseDigits(ds, radix, neg) ==
  IF ds = <<>> \/ \E i \in 1..Len(ds) : ~IsDigit(ds[i], radix)
  THEN SyntaxError
  ELSE [ok |-> TRUE, val |-> MkBig(neg, Accumulate(<<>>, ds, radix))]

\* BigInt(string): StringToBigInt of ECMAScript. The empty string is 0n; a
\* decimal literal may carry a sign; 0x/0o/0b literals (either case of the
\* letter) may not; anything else throws SyntaxError.
StringToBigInt(str) ==
  IF str = <<>> THEN [ok |-> TRUE, val |-> Zero]
  ELSE IF Len(str) >= 2 /\ str[1] = "0" /\ str[2] \in {"x", "X"}
       THEN ParseDigits(SubSeq(str, 3, Len(str)), 16, FALSE)
  ELSE IF Len(str) >= 2 /\ str[1] = "0" /\ str[2] \in {"o", "O"}
       THEN ParseDigits(SubSeq(str, 3, Len(str)), 8, FALSE)
  ELSE IF Len(str) >= 2 /\ str[1] = "0" /\ str[2] \in {"b", "B"}
       THEN ParseDigits(SubSeq(str, 3, Len(str)), 2, FALSE)
  ELSE IF str[1] \in {"+", "-"}
       THEN ParseDigits(Tail(str), 10, str[1] = "-")
  ELSE ParseDigits(str, 10, FALSE)

\* variant: underscores are kept
cleanInputKeepUnderscore(input) ==
  RemoveChars(input, WhiteSpaceChars)

\* input.replace(/\s/g, '').replace(/_/g, '')
cleanInputOf(input) ==
  RemoveChars(RemoveChars(input, WhiteSpaceChars), {"_"})

\* variant: the prefix is added without looking for one
hexStrAlways(cleanInput) ==
  <<"0", "x">> \o cleanInput

\* cleanInput.startsWith('0x') ? cleanInput : `0x${cleanInput}`
hexStrOf(cleanInput) ==
  IF startsWith(cleanInput, <<"0", "x">>) THEN cleanInput
  ELSE <<"0", "x">> \o cleanInput

parseInput(input, type) ==
  IF input = <<>> THEN Zero
  ELSE LET cleanInput == cleanInputOf(input)
           r == IF type = "hex" THEN StringToBigInt(hexStrOf(cleanInput))
                ELSE StringToBigInt(cleanInput)
       IN IF r.ok THEN r.val ELSE Zero

----------------------------------------------------------------------------
(* utils: calculateMinBytes *)

HexPair(d) == <<LowerDigits[(d \div 16) + 1], LowerDigits[(d % 16) + 1]>>

RECURSIVE HexTail(_)
HexTail(m) ==
  IF m = <<>> THEN <<>> ELSE HexTail(Tail(m)) \o HexPair(Head(m))

\* absVal.toString(16): no leading zero digit
toString16(m) ==
  IF m = <<>> THEN <<"0">>
  ELSE LET top == m[Len(m)]
           rest == SubSeq(m, 1, Len(m) - 1)
       IN (IF top >= 16 THEN HexPair(top) ELSE <<LowerDigits[top + 1]>>)
          \o HexTail(rest)

\* variant: Math.floor in place of Math.ceil
calculateMinBytesFloor(value) ==
  IF value = Zero THEN 1
  ELSE LET absVal == IF value.neg THEN BigNeg(value) ELSE value
           hex == toString16(absVal.mag)
       IN Len(hex) \div 2

\* Math.ceil(hex.length / 2)
calculateMinBytes(value) ==
  IF value = Zero THEN 1
  ELSE LET absVal == IF value.neg THEN BigNeg(value) ELSE value
           hex == toString16(absVal.mag)
       IN (Len(hex) + 1) \div 2

----------------------------------------------------------------------------
(* App: MainContent derived state (the useMemo chain) *)

Max(a, b) == IF a >= b THEN a ELSE b
Min(a, b) == IF a <= b THEN a ELSE b

\* variant: Math.floor in place of Math.ceil
dynamicByteLengthFloor(value, width) ==
  LET minBytes == calculateMinBytes(value)
  IN Max(width, (minBytes \div width) * width)

\* Math.max(byteWidth, Math.ceil(minBytes / byteWidth) * byteWidth)
dynamicByteLengthOf(value, width) ==
  LET minBytes == calculateMinBytes(value)
  IN Max(width, ((minBytes + width - 1) \div width) * width)

\* JavaScript values held by the interpretation table
Null == [tag |-> "null"]
Num(v) == [tag |-> "number", val |-> v]
Big(v) == [tag |-> "bigint", val |-> v]
Float(f) == [tag |-> "number", float |-> f]
Str(t) == [tag |-> "string", text |-> t]

\* new ArrayBuffer(8) is zero-filled; view.setUint8(i, memoryBytes[i])
\* for i < bytesToRead
bufferOf(bytes, bytesToRead) ==
  [i \in 1..8 |-> IF i <= bytesToRead THEN bytes[i] ELSE 0]

\* variant: the littleEndian argument is ignored
ViewDigitsIgnoreOrder(buffer, n, le) ==
  SubSeq(buffer, 1, n)

\* the n bytes at offset 0, least-significant first
ViewDigits(buffer, n, le) ==
  IF le THEN SubSeq(buffer, 1, n) ELSE Reverse(SubSeq(buffer, 1, n))

\* DataView.getUint8 / getUint16 / getUint32 / getBigUint64 at offset 0
getUint(buffer, n, le) == MkBig(FALSE, ViewDigits(buffer, n, le))

\* DataView.getInt8 / getInt16 / getInt32 / getBigInt64 at offset 0:
\* two's complement of n bytes
getInt(buffer, n, le) ==
  LET d == ViewDigits(buffer, n, le)
  IN IF d[n] >= 128
     THEN MkBig(TRUE, MagInc([i \in 1..n |-> 255 - d[i]]))
     ELSE MkBig(FALSE, d)

\* DataView.getFloat32: sign, biased exponent and fraction fields of the
\* IEEE-754 single-precision pattern
getFloat32(buffer, le) ==
  LET d == ViewDigits(buffer, 4, le)
  IN [sign |-> d[4] \div 128,
      exponent |-> (d[4] % 128) * 2 + (d[3] \div 128),
      fraction |-> Canon(<<d[1], d[2], d[3] % 128>>)]

\* DataView.getFloat64: the fields of the double-precision pattern
getFloat64(buffer, le) ==
  LET d == ViewDigits(buffer, 8, le)
  IN [sign |-> d[8] \div 128,
      exponent |-> (d[8] % 128) * 16 + (d[7] \div 16),
      fraction |-> Canon(<<d[1], d[2], d[3], d[4], d[5], d[6], d[7] % 16>>)]

\* bytesToRead = Math.min(memoryBytes.length, 8)
bytesToReadOf(bytes) == Min(Len(bytes), 8)

\* variant: 0 in place of null for a short buffer
safeGetZero(bytesToRead, minBytes, got) ==
  IF bytesToRead < minBytes THEN Num(Zero) ELSE got

\* safeGet: if (bytesToRead < minBytes) return null; return getter()
safeGet(bytesToRead, minBytes, got) ==
  IF bytesToRead < minBytes THEN Null ELSE got

interpretationsOf(bytes, le) ==
  LET bytesToRead == bytesToReadOf(bytes)
      buffer == bufferOf(bytes, bytesToRead)
  IN [int8    |-> safeGet(bytesToRead, 1, Num(getInt(buffer, 1, TRUE))),
      uint8   |-> safeGet(bytesToRead, 1, Num(getUint(buffer, 1, TRUE))),
      int16   |-> safeGet(bytesToRead, 2, Num(getInt(buffer, 2, le))),
      uint16  |-> safeGet(bytesToRead, 2, Num(getUint(buffer, 2, le))),
      int32   |-> safeGet(bytesToRead, 4, Num(getInt(buffer, 4, le))),
      uint32  |-> safeGet(bytesToRead, 4, Num(getUint(buffer, 4, le))),
      float32 |-> safeGet(bytesToRead, 4, Float(getFloat32(buffer, le))),
      int64   |-> safeGet(bytesToRead, 8, Big(getInt(buffer, 8, le))),
      uint64  |-> safeGet(bytesToRead, 8, Big(getUint(buffer, 8, le))),
      float64 |-> safeGet(bytesToRead, 8, Float(getFloat64(buffer, le)))]

RECURSIVE Chunks(_, _, _)
\* for (i = 0; i < memoryBytes.length; i += byteWidth)
\*   chunks.push(memoryBytes.slice(i, i + byteWidth))
Chunks(bytes, i, width) ==
  IF i < Len(bytes)
  THEN <<SubSeq(bytes, i + 1, Min(i + width, Len(bytes)))>>
       \o Chunks(bytes, i + width, width)
  ELSE <<>>

wordChunksOf(bytes, width) == Chunks(bytes, 0, width)

\* x ?? '-'
NullishOrDash(x) == IF x.tag \in {"null", "undefined"} THEN Str("-") ELSE x

\* x?.toString() and x?.toExponential(4)
OptionalCall(x, method) ==
  IF x.tag = "null" THEN [tag |-> "undefined"]
  ELSE [tag |-> "string", method |-> method, of |-> x]

\* variant: the 64-bit rows are rendered at every word width
tableCellsAllRows(interp, width) ==
  [r \in {"int8", "uint8", "int16", "uint16", "int32", "uint32"} |->
     NullishOrDash(interp[r])]
  @@ [r \in {"float32", "float64"} |->
        NullishOrDash(OptionalCall(interp[r], "toExponential"))]
  @@ [r \in {"int64", "uint64"} |->
        NullishOrDash(OptionalCall(interp[r], "toString"))]

\* the cells of the interpretation table that are rendered
tableCells(interp, width) ==
  LET always ==
        [r \in {"int8", "uint8", "int16", "uint16", "int32", "uint32"} |->
           NullishOrDash(interp[r])]
      f32 == [r \in {"float32"} |->
                NullishOrDash(OptionalCall(interp.float32, "toExponential"))]
      wide ==
        IF width = 8
        THEN [r \in {"int64", "uint64", "float64"} |->
                NullishOrDash(OptionalCall(interp[r],
                   IF r = "float64" THEN "toExponential" ELSE "toString"))]
        ELSE [r \in {} |-> Str("-")]
  IN always @@ f32 @@ wide

----------------------------------------------------------------------------
(* App: the components of the memory grid *)

RECURSIVE ShiftRight(_, _)
\* x >> n on a non-negative Number: n halvings
ShiftRight(x, n) == IF n = 0 THEN x ELSE ShiftRight(x \div 2, n - 1)

\* variant: bit i instead of bit 7 - i
BitGridAscending(byteVal) ==
  [i \in 1..8 |-> ShiftRight(byteVal, i - 1) % 2]

\* BitGrid: Array.from({ length: 8 }).map((_, i) => (byteVal >> (7 - i)) & 1)
BitGrid(byteVal) ==
  [i \in 1..8 |-> ShiftRight(byteVal, 7 - (i - 1)) % 2]

BorderColors == <<"border-red-500", "border-orange-500", "border-amber-500",
                  "border-yellow-500", "border-lime-500", "border-green-500",
                  "border-emerald-500", "border-teal-500">>

\* variant: the position is taken as the rank in either order
significanceIndexOfPosition(index, total, isLE) == index

\* isLittleEndian ? index : (total - 1 - index)
significanceIndexOf(index, total, isLE) ==
  IF isLE THEN index ELSE total - 1 - index

BackgroundColors == <<"bg-red-500", "bg-orange-500", "bg-amber-500",
                      "bg-yellow-500", "bg-lime-500", "bg-green-500",
                      "bg-emerald-500", "bg-teal-500">>

\* getByteColor: colors[significanceIndex % colors.length]
getByteColor(index, total, isLE) ==
  BackgroundColors[(significanceIndexOf(index, total, isLE)
                      % Len(BackgroundColors)) + 1]

\* getByteBorderColor: colors[significanceIndex % colors.length]
getByteBorderColor(index, total, isLE) ==
  BorderColors[(significanceIndexOf(index, total, isLE) % Len(BorderColors)) + 1]

\* variant: the labels follow the position, not the significance
ByteCardByPosition(index, value, totalBytes, isLE, addressOffset) ==
  [index |-> index, value |-> value, addressOffset |-> addressOffset,
   borderColor |-> getByteBorderColor(index, totalBytes, isLE),
   significance |-> index,
   label |-> IF index = 0 THEN "LSB"
             ELSE IF index = totalBytes - 1 THEN "MSB" ELSE "",
   bits |-> BitGrid(value)]

\* ByteCard: index 0 is the first card
ByteCard(index, value, totalBytes, isLE, addressOffset) ==
  LET significance == IF isLE THEN index ELSE totalBytes - 1 - index
  IN [index |-> index, value |-> value, addressOffset |-> addressOffset,
      borderColor |-> getByteBorderColor(index, totalBytes, isLE),
      significance |-> significance,
      label |-> IF significance = 0 THEN "LSB"
                ELSE IF significance = totalBytes - 1 THEN "MSB" ELSE "",
      bits |-> BitGrid(value)]

\* (val << 8n) | BigInt(byte)
ShiftInByte(val, byte) == MkBig(FALSE, <<byte>> \o val.mag)

RECURSIVE WordValueFrom(_, _, _, _)
\* the loop over bytes from index i in steps of step, while 0 <= i < length
WordValueFrom(val, bytes, i, step) ==
  IF i >= 0 /\ i < Len(bytes)
  THEN WordValueFrom(ShiftInByte(val, bytes[i + 1]), bytes, i + step, step)
  ELSE val

\* variant: the bytes are always read first to last
WordValueFirstToLast(bytes, isLE) == WordValueFrom(Zero, bytes, 0, 1)

\* WordCard value: from the last byte down under Little endian, from the
\* first byte up under Big endian
WordValue(bytes, isLE) ==
  IF isLE THEN WordValueFrom(Zero, bytes, Len(bytes) - 1, -1)
  ELSE WordValueFrom(Zero, bytes, 0, 1)

toUpperCase(s) ==
  [i \in 1..Len(s) |->
     IF \E j \in 1..16 : LowerDigits[j] = s[i]
     THEN UpperDigits[CHOOSE j \in 1..16 : LowerDigits[j] = s[i]]
     ELSE s[i]]

\* String.prototype.padStart(width, '0')
padStart(s, width) ==
  [i \in 1..(Max(width, Len(s)) - Len(s)) |-> "0"] \o s

\* WordCard
WordCard(bytes, addressOffset, isLE, wordWidth) ==
  LET value == WordValue(bytes, isLE)
      hexWidth == wordWidth * 2
  IN [bytes |-> bytes, value |-> value,
      hexString |-> padStart(toUpperCase(toString16(value.mag)), hexWidth),
      addrFirst |-> addressOffset,
      addrLast |-> addressOffset + wordWidth - 1]

\* memoryBytes.map((byte, idx) => <ByteCard index={idx} value={byte}
\*   totalBytes={dynamicByteLength} ... addressOffset={idx} />)
byteCardsOf(bytes, total, isLE) ==
  [n \in 1..Len(bytes) |-> ByteCard(n - 1, bytes[n], total, isLE, n - 1)]

\* wordChunks.map((chunk, idx) => <WordCard bytes={chunk}
\*   addressOffset={idx * byteWidth} ... wordWidth={byteWidth} />)
wordCardsOf(chunks, width, isLE) ==
  [n \in 1..Len(chunks) |-> WordCard(chunks[n], (n - 1) * width, isLE, width)]

\* viewUnit === 'byte' ? the byte cards : the word cards
gridOf(unit, bytes, total, chunks, width, isLE) ==
  IF unit = "byte"
  THEN [unit |-> "byte", cards |-> byteCardsOf(bytes, total, isLE)]
  ELSE [unit |-> "word", cards |-> wordCardsOf(chunks, width, isLE)]

----------------------------------------------------------------------------
(* App: MainContent state and event handlers *)

\* texts a user types into the input field, one character after another
TypedTexts ==
  { <<"3", "0", "5", "4", "1", "9", "8", "9", "6", "1", "2", "3", "4", "5",
      "6", "7", "8", "9", "0", "1", "2", "3">>,
    <<"0", "x", "1", "2", "3", "4", "5", "6", "7", "8", "9", "a", "b", "c",
      "d", "e", "f", "0", "1", "2", "3", "4">>,
    <<"f", "f", "f", "f", "f", "f", "f", "f", "f", "f", "f", "f", "f", "f",
      "f", "f", "f", "f", "f", "f", "f", "f">>,
    <<"8", "0", "0", "0", "0", "0", "0", "0", "0", "0", "0", "0", "0", "0",
      "0", "0", "0", "0", "0", "0", "0", "0">>,
    <<"-", "6", "5", "5", "3", "6", "1", "2", "3", "4", "5", "6", "7", "8",
      "9", "0", "1", "2", "3", "4", "5", "6">>,
    <<"-", "1", "2", "8", "0", "0", "0", "0", "0", "0", "0", "0", "0", "0",
      "0", "0", "0", "0", "0", "0", "0", "0">>,
    <<"-", "4", "0", "0", "0", "0">>,
    <<" ", " ", "1", "_", "2", "3", "4", " ", " ">>,
    <<"0", "X", "1", "A", "2", "B">>,
    <<"a", "b", "c">> }

InputStrings ==
  { SubSeq(t, 1, Min(n, Len(t))) : t \in TypedTexts, n \in 0..MaxInputLen }

\* the texts one keystroke away from cur: a character typed at the end, or
\* the last character deleted
KeystrokeEdits(cur) ==
  { s \in InputStrings :
      \/ Len(s) = Len(cur) + 1 /\ SubSeq(s, 1, Len(cur)) = cur
      \/ Len(cur) > 0 /\ s = SubSeq(cur, 1, Len(cur) - 1) }

TooltipTexts == {"LSB", "MSB"}

NoTooltip == [text |-> "", x |-> -1, y |-> -1]

\* variant: byteWidth is missing from the dependencies of wordChunks
RenderStaleChunks ==
  /\ rawValue' =
       IF <<inputStr', inputType'>> # <<inputStr, inputType>>
       THEN parseInput(inputStr', inputType') ELSE rawValue
  /\ dynamicByteLength' =
       IF <<rawValue', byteWidth'>> # <<rawValue, byteWidth>>
       THEN dynamicByteLengthOf(rawValue', byteWidth') ELSE dynamicByteLength
  /\ LET bytesDirty == <<rawValue', dynamicByteLength', isLittleEndian'>>
                         # <<rawValue, dynamicByteLength, isLittleEndian>>
     IN /\ memoryBytes' =
             IF bytesDirty
             THEN bigIntToBytes(rawValue', dynamicByteLength', isLittleEndian')
             ELSE memoryBytes
        /\ interpretations' =
             IF bytesDirty
             THEN interpretationsOf(memoryBytes', isLittleEndian')
             ELSE interpretations
        /\ wordChunks' =
             IF bytesDirty
             THEN wordChunksOf(memoryBytes', byteWidth') ELSE wordChunks

\* the useMemo chain of one render: a memoised value is recomputed when one
\* of its dependencies changed (an array is a new object when recomputed)
Render ==
  /\ rawValue' =
       IF <<inputStr', inputType'>> # <<inputStr, inputType>>
       THEN parseInput(inputStr', inputType') ELSE rawValue
  /\ dynamicByteLength' =
       IF <<rawValue', byteWidth'>> # <<rawValue, byteWidth>>
       THEN dynamicByteLengthOf(rawValue', byteWidth') ELSE dynamicByteLength
  /\ LET bytesDirty == <<rawValue', dynamicByteLength', isLittleEndian'>>
                         # <<rawValue, dynamicByteLength, isLittleEndian>>
     IN /\ memoryBytes' =
             IF bytesDirty
             THEN bigIntToBytes(rawValue', dynamicByteLength', isLittleEndian')
             ELSE memoryBytes
        /\ interpretations' =
             IF bytesDirty
             THEN interpretationsOf(memoryBytes', isLittleEndian')
             ELSE interpretations
        /\ wordChunks' =
             IF bytesDirty \/ byteWidth' # byteWidth
             THEN wordChunksOf(memoryBytes', byteWidth') ELSE wordChunks

HarnessIdleParseBytes ==
  /\ pInput = <<>> /\ pType = "dec" /\ pResult = Zero
  /\ bValue = Zero /\ bLength = 0 /\ bLittle = TRUE
  /\ bBytes = <<>> /\ bMinBytes = 0

HarnessIdle ==
  /\ HarnessIdleParseBytes
  /\ gByte = 0 /\ gBits = <<>>

AppStart ==
  /\ inputStr = <<"3", "0", "5", "4", "1", "9", "8", "9", "6">>
  /\ inputType = "dec"
  /\ byteWidth = 4
  /\ isLittleEndian = TRUE
  /\ viewUnit = "byte"
  /\ isHelpOpen = FALSE
  /\ tooltip = NoTooltip
  /\ rawValue = parseInput(inputStr, inputType)
  /\ dynamicByteLength = dynamicByteLengthOf(rawValue, byteWidth)
  /\ memoryBytes = bigIntToBytes(rawValue, dynamicByteLength, isLittleEndian)
  /\ interpretations = interpretationsOf(memoryBytes, isLittleEndian)
  /\ wordChunks = wordChunksOf(memoryBytes, byteWidth)

Init ==
  /\ AppStart
  /\ HarnessIdle
  /\ done = {}

\* onChange={(e) => setInputStr(e.target.value)}
SetInputStr(s) ==
  /\ inputStr' = s
  /\ UNCHANGED <<inputType, byteWidth, isLittleEndian, viewUnit, isHelpOpen,
                 tooltip>>
  /\ Render
  /\ UNCHANGED <<parseVars, bytesVars, bitsVars, done>>

\* onClick={() => setInputType('dec')} and setInputType('hex')
SetInputType(t) ==
  /\ inputType' = t
  /\ UNCHANGED <<inputStr, byteWidth, isLittleEndian, viewUnit, isHelpOpen,
                 tooltip>>
  /\ Render
  /\ UNCHANGED <<parseVars, bytesVars, bitsVars, done>>

\* onChange={() => setIsLittleEndian(true)} and setIsLittleEndian(false)
SetIsLittleEndian(b) ==
  /\ isLittleEndian' = b
  /\ UNCHANGED <<inputStr, inputType, byteWidth, viewUnit, isHelpOpen,
                 tooltip>>
  /\ Render
  /\ UNCHANGED <<parseVars, bytesVars, bitsVars, done>>

\* onClick={() => setByteWidth(2)}, setByteWidth(4), setByteWidth(8)
SetByteWidth(w) ==
  /\ byteWidth' = w
  /\ UNCHANGED <<inputStr, inputType, isLittleEndian, viewUnit, isHelpOpen,
                 tooltip>>
  /\ Render
  /\ UNCHANGED <<parseVars, bytesVars, bitsVars, done>>

\* onClick={() => setViewUnit('byte')} and setViewUnit('word')
SetViewUnit(u) ==
  /\ viewUnit' = u
  /\ UNCHANGED <<inputStr, inputType, byteWidth, isLittleEndian, isHelpOpen,
                 tooltip>>
  /\ Render
  /\ UNCHANGED <<parseVars, bytesVars, bitsVars, done>>

\* onClick={() => setIsHelpOpen(true)} and onClose
SetIsHelpOpen(b) ==
  /\ isHelpOpen' = b
  /\ UNCHANGED <<inputStr, inputType, byteWidth, isLittleEndian, viewUnit,
                 tooltip>>
  /\ Render
  /\ UNCHANGED <<parseVars, bytesVars, bitsVars, done>>

\* showTooltip: setTooltip({ text, x: e.clientX, y: e.clientY }); the tooltip
\* state lives in TooltipProvider, above MainContent, which renders again
ShowTooltip(text, x, y) ==
  /\ tooltip' = [text |-> text, x |-> x, y |-> y]
  /\ UNCHANGED <<inputStr, inputType, byteWidth, isLittleEndian, viewUnit,
                 isHelpOpen>>
  /\ Render
  /\ UNCHANGED <<parseVars, bytesVars, bitsVars, done>>

\* hideTooltip: setTooltip(null)
HideTooltip ==
  /\ tooltip' = NoTooltip
  /\ UNCHANGED <<inputStr, inputType, byteWidth, isLittleEndian, viewUnit,
                 isHelpOpen>>
  /\ Render
  /\ UNCHANGED <<parseVars, bytesVars, bitsVars, done>>

Next ==
  \/ \E s \in KeystrokeEdits(inputStr) : SetInputStr(s)
  \/ \E t \in {"hex", "dec"} : SetInputType(t)
  \/ \E b \in BOOLEAN : SetIsLittleEndian(b)
  \/ \E w \in {2, 4, 8} : SetByteWidth(w)
  \/ \E u \in {"byte", "word"} : SetViewUnit(u)
  \/ \E b \in BOOLEAN : SetIsHelpOpen(b)
  \/ \E t \in TooltipTexts, x \in 0..MaxCoord, y \in 0..MaxCoord :
       ShowTooltip(t, x, y)
  \/ HideTooltip

Spec == Init /\ [][Next]_vars

----------------------------------------------------------------------------
(* parseInput on its own *)

ParseAlphabet == {"0", "1", "9", "b", "B", "x", "X", "-", "+", "_", " "}

ParseStrings == UNION { [1..n -> ParseAlphabet] : n \in 0..MaxStrLen }

InitParse ==
  /\ AppStart
  /\ pInput \in ParseStrings
  /\ pType \in {"hex", "dec"}
  /\ pResult = Zero
  /\ bValue = Zero /\ bLength = 0 /\ bLittle = TRUE
  /\ bBytes = <<>> /\ bMinBytes = 0
  /\ gByte = 0 /\ gBits = <<>>
  /\ done = {}

CallParseInput ==
  /\ "parseInput" \notin done
  /\ pResult' = parseInput(pInput, pType)
  /\ done' = done \cup {"parseInput"}
  /\ UNCHANGED <<pInput, pType, appVars, derivedVars, bytesVars, bitsVars>>

NextParse == CallParseInput

SpecParse == InitParse /\ [][NextParse]_vars

----------------------------------------------------------------------------
(* bigIntToBytes and calculateMinBytes on their own *)

SampleDigits == {0, 1, 127, 128, 255}

SampleMags ==
  { m \in UNION { [1..n -> SampleDigits] : n \in 0..MaxMagLen } :
      m = <<>> \/ m[Len(m)] # 0 }

SampleBigInts ==
  { [neg |-> s, mag |-> m] : s \in BOOLEAN, m \in SampleMags } \ 
  { [neg |-> TRUE, mag |-> <<>>] }

InitBytes ==
  /\ AppStart
  /\ pInput = <<>> /\ pType = "dec" /\ pResult = Zero
  /\ bValue \in SampleBigInts
  /\ bLength \in 0..MaxLength
  /\ bLittle \in BOOLEAN
  /\ bBytes = <<>>
  /\ bMinBytes = 0
  /\ gByte = 0 /\ gBits = <<>>
  /\ done = {}

CallBigIntToBytes ==
  /\ "bigIntToBytes" \notin done
  /\ bBytes' = bigIntToBytes(bValue, bLength, bLittle)
  /\ done' = done \cup {"bigIntToBytes"}
  /\ UNCHANGED <<bValue, bLength, bLittle, bMinBytes, appVars, derivedVars,
                 parseVars, bitsVars>>

CallCalculateMinBytes ==
  /\ "calculateMinBytes" \notin done
  /\ bMinBytes' = calculateMinBytes(bValue)
  /\ done' = done \cup {"calculateMinBytes"}
  /\ UNCHANGED <<bValue, bLength, bLittle, bBytes, appVars, derivedVars,
                 parseVars, bitsVars>>

NextBytes == CallBigIntToBytes \/ CallCalculateMinBytes

SpecBytes == InitBytes /\ [][NextBytes]_vars

----------------------------------------------------------------------------
(* BitGrid on its own *)

InitBits ==
  /\ AppStart
  /\ HarnessIdleParseBytes
  /\ gByte \in 0..255
  /\ gBits = <<>>
  /\ done = {}

CallBitGrid ==
  /\ "BitGrid" \notin done
  /\ gBits' = BitGrid(gByte)
  /\ done' = done \cup {"BitGrid"}
  /\ UNCHANGED <<gByte, appVars, derivedVars, parseVars, bytesVars>>

NextBits == CallBitGrid

SpecBits == InitBits /\ [][NextBits]_vars

----------------------------------------------------------------------------
(* Mathematical vocabulary of the properties *)

RECURSIVE Pow(_, _)
Pow(b, e) == IF e = 0 THEN 1 ELSE b * Pow(b, e - 1)

RECURSIVE SumBytes(_)
\* sum over i of b[i] * 256^i
SumBytes(b) == IF b = <<>> THEN 0 ELSE Head(b) + 256 * SumBytes(Tail(b))

\* the integer a BigInt stands for (magnitudes below 2^31 only)
ToInt(v) == IF v.neg THEN 0 - SumBytes(v.mag) ELSE SumBytes(v.mag)

\* v is small enough for the integers of the checker
FitsInt(v) == Len(v.mag) <= 3

RECURSIVE Complement(_, _)
\* (0 - m) mod 256^Len(m), digit by digit with a borrow
Complement(m, borrow) ==
  IF m = <<>> THEN <<>>
  ELSE LET t == Head(m) + borrow
       IN <<(256 - t) % 256>>
          \o Complement(Tail(m), IF t > 0 THEN 1 ELSE 0)

\* the L base-256 digits of v mod 256^L (non-negative modulus)
ModDigits(v, L) ==
  LET low == [i \in 1..L |-> IF i <= Len(v.mag) THEN v.mag[i] ELSE 0]
  IN IF v.neg THEN Complement(low, 0) ELSE low

IsByteSeq(b) == \A i \in 1..Len(b) : b[i] \in 0..255

----------------------------------------------------------------------------
(* Properties of bigIntToBytes and calculateMinBytes (SpecBytes) *)

\* C1: truncation law. The little-endian result b of bigIntToBytes(v, L, true)
\* satisfies sum b[i] * 256^i = v mod 256^L for every integer v and L >= 0:
\* only the low L bytes are kept and a negative v appears as its L-byte
\* two's complement.
C1_TruncationLaw ==
  ("bigIntToBytes" \in done /\ bLittle) =>
     /\ Len(bBytes) >= bLength
     /\ SubSeq(bBytes, 1, bLength) = ModDigits(bValue, bLength)
     /\ (FitsInt(bValue) /\ bLength <= 3) =>
           SumBytes(SubSeq(bBytes, 1, bLength))
             = ToInt(bValue) % Pow(256, bLength)

\* a negative value whose magnitude needs more bytes than the length given
C1_Witness ==
  /\ "bigIntToBytes" \in done /\ bLittle
  /\ bValue = [neg |-> TRUE, mag |-> <<1, 1>>]
  /\ bLength = 1
  /\ bBytes = <<255>>

\* C2: endianness is pure reversal. For non-negative v and
\* L >= calculateMinBytes(v), the little-endian result reversed equals the
\* big-endian result; index 0 holds the least-significant byte under Little
\* and the most-significant byte under Big.
C2_EndianReversal ==
  ("bigIntToBytes" \in done /\ ~bValue.neg
     /\ bLength >= calculateMinBytes(bValue)) =>
     /\ Reverse(bBytes) = bigIntToBytes(bValue, bLength, ~bLittle)
     /\ bLittle => bBytes[1] = ModDigits(bValue, bLength)[1]
     /\ ~bLittle => bBytes[1] = ModDigits(bValue, bLength)[bLength]
     /\ FitsInt(bValue) =>
          bBytes[IF bLittle THEN 1 ELSE bLength] = ToInt(bValue) % 256

C2_Witness ==
  /\ "bigIntToBytes" \in done /\ ~bLittle
  /\ bValue = [neg |-> FALSE, mag |-> <<255, 1>>]
  /\ bLength = 3
  /\ bBytes = <<0, 1, 255>>

\* C3: shape of the encoder output. For every integer v, every L >= 1 and
\* either order, bigIntToBytes returns exactly L elements, each in 0..255.
C3_OutputShape ==
  ("bigIntToBytes" \in done /\ bLength >= 1) =>
     /\ Len(bBytes) = bLength
     /\ IsByteSeq(bBytes)

\* a negative value that needs more than L bytes, big-endian
C3_Witness ==
  /\ "bigIntToBytes" \in done /\ ~bLittle
  /\ bValue.neg /\ Len(bValue.mag) = 2
  /\ bLength = 1
  /\ Len(bBytes) = 1

\* the number of hexadecimal digits of a positive integer
RECURSIVE HexDigitCount(_)
HexDigitCount(n) == IF n < 16 THEN 1 ELSE 1 + HexDigitCount(n \div 16)

\* C8: calculateMinBytes returns 1 for 0 and ceil(h / 2) for a non-zero v
\* with h hexadecimal digits in |v|; the result is >= 1, is the same for v
\* and -v, and is the least n >= 1 with |v| < 256^n.
C8_MinBytes ==
  "calculateMinBytes" \in done =>
     /\ bMinBytes >= 1
     /\ bValue = Zero => bMinBytes = 1
     /\ bMinBytes = calculateMinBytes(BigNeg(bValue))
     /\ bValue # Zero => bMinBytes = Len(bValue.mag)
     /\ (FitsInt(bValue) /\ bValue # Zero) =>
          LET a == SumBytes(bValue.mag)
              h == HexDigitCount(a)
          IN /\ bMinBytes * 2 >= h /\ (bMinBytes - 1) * 2 < h
             /\ a < Pow(256, bMinBytes)
             /\ bMinBytes > 1 => a >= Pow(256, bMinBytes - 1)

\* a negative value with an odd number of hexadecimal digits
C8_Witness ==
  /\ "calculateMinBytes" \in done
  /\ bValue = [neg |-> TRUE, mag |-> <<255, 1>>]
  /\ bMinBytes = 2

----------------------------------------------------------------------------
(* Properties of parseInput (SpecParse) *)

DecChars == {"0", "1", "2", "3", "4", "5", "6", "7", "8", "9"}
HexChars == DecChars \cup {"a", "b", "c", "d", "e", "f",
                           "A", "B", "C", "D", "E", "F"}
Separators == {" ", "\t", "_"}

\* s with all whitespace and underscores removed
Stripped(s) == SelectSeq(s, LAMBDA c : c \notin {" ", "\t", "\n", "\r", "_"})

AllIn(s, chars) == \A i \in 1..Len(s) : s[i] \in chars

\* dec: an optional leading '-' followed by one or more decimal digits
DecBody(t) == IF t # <<>> /\ t[1] = "-" THEN Tail(t) ELSE t
InDecGrammar(t) == DecBody(t) # <<>> /\ AllIn(DecBody(t), DecChars)

\* hex: an optional leading '0x' followed by one or more hexadecimal digits
HexBody(t) ==
  IF Len(t) >= 2 /\ t[1] = "0" /\ t[2] = "x" THEN SubSeq(t, 3, Len(t)) ELSE t
InHexGrammar(t) == HexBody(t) # <<>> /\ AllIn(HexBody(t), HexChars)

CharValue(c) ==
  CASE c = "0" -> 0 [] c = "1" -> 1 [] c = "2" -> 2 [] c = "3" -> 3
    [] c = "4" -> 4 [] c = "5" -> 5 [] c = "6" -> 6 [] c = "7" -> 7
    [] c = "8" -> 8 [] c = "9" -> 9
    [] c \in {"a", "A"} -> 10 [] c \in {"b", "B"} -> 11
    [] c \in {"c", "C"} -> 12 [] c \in {"d", "D"} -> 13
    [] c \in {"e", "E"} -> 14 [] c \in {"f", "F"} -> 15

RECURSIVE Denotes(_, _)
\* the integer a digit string denotes in a base
Denotes(ds, base) ==
  IF ds = <<>> THEN 0
  ELSE CharValue(ds[Len(ds)]) + base * Denotes(SubSeq(ds, 1, Len(ds) - 1), base)

ToLower(s) ==
  [i \in 1..Len(s) |->
     CASE s[i] = "A" -> "a" [] s[i] = "B" -> "b" [] s[i] = "C" -> "c"
       [] s[i] = "D" -> "d" [] s[i] = "E" -> "e" [] s[i] = "F" -> "f"
       [] s[i] = "X" -> "x" [] s[i] = "O" -> "o" [] OTHER -> s[i]]

ToUpper(s) ==
  [i \in 1..Len(s) |->
     CASE s[i] = "a" -> "A" [] s[i] = "b" -> "B" [] s[i] = "c" -> "C"
       [] s[i] = "d" -> "D" [] s[i] = "e" -> "E" [] s[i] = "f" -> "F"
       [] s[i] = "x" -> "X" [] s[i] = "o" -> "O" [] OTHER -> s[i]]

\* s with the character c inserted after its first i characters
Insert(s, i, c) == SubSeq(s, 1, i) \o <<c>> \o SubSeq(s, i + 1, Len(s))

\* C4: parseInput never fails and returns 0 whenever the input is empty, is
\* empty after stripping whitespace and underscores, or the stripped text is
\* not in the numeric grammar of the format.
C4_MalformedIsZero ==
  "parseInput" \in done =>
     LET t == Stripped(pInput)
         wellFormed == IF pType = "hex" THEN InHexGrammar(t)
                       ELSE InDecGrammar(t)
     IN /\ pResult.neg \in BOOLEAN /\ IsByteSeq(pResult.mag)
        /\ ~wellFormed => pResult = Zero

\* C5: for a non-empty string h of hexadecimal digits, parseInput(h, 'hex')
\* and parseInput('0x' + h, 'hex') are both the non-negative integer h
\* denotes in base 16.
C5_HexPrefixOptional ==
  /\ ("parseInput" \in done /\ pType = "hex"
        /\ pInput # <<>> /\ AllIn(pInput, HexChars)) =>
       /\ pResult = parseInput(<<"0", "x">> \o pInput, "hex")
       /\ ~pResult.neg
       /\ ToInt(pResult) = Denotes(pInput, 16)
  /\ ("parseInput" \in done /\ pType = "hex" /\ Len(pInput) > 2
        /\ pInput[1] = "0" /\ pInput[2] = "x"
        /\ AllIn(SubSeq(pInput, 3, Len(pInput)), HexChars)) =>
       /\ ~pResult.neg
       /\ ToInt(pResult) = Denotes(SubSeq(pInput, 3, Len(pInput)), 16)
  /\ "parseInput" \in done =>
       /\ parseInput(<<"1", "A", "2", "B">>, "hex") = MkBig(FALSE, <<43, 26>>)
       /\ parseInput(<<"0", "x", "1", "A", "2", "B">>, "hex")
            = MkBig(FALSE, <<43, 26>>)
       /\ SumBytes(<<43, 26>>) = 6699

C5_Witness ==
  /\ "parseInput" \in done /\ pType = "hex"
  /\ pInput = <<"0", "x", "B">>
  /\ pResult = [neg |-> FALSE, mag |-> <<11>>]

\* C6: hex parsing is case-insensitive: parseInput(s, 'hex') equals
\* parseInput(lowercase(s), 'hex') and parseInput(uppercase(s), 'hex'), for
\* the hexadecimal digits and for the letter of the prefix.
C6_HexCaseInsensitive ==
  ("parseInput" \in done /\ pType = "hex") =>
     /\ pResult = parseInput(ToLower(pInput), "hex")
     /\ pResult = parseInput(ToUpper(pInput), "hex")

\* C7: for a non-empty string d of decimal digits denoting n,
\* parseInput(d, 'dec') = n and parseInput('-' + d, 'dec') = -n, and the
\* result is unchanged by whitespace and underscores inserted anywhere.
C7_DecimalWellFormed ==
  ("parseInput" \in done /\ pType = "dec"
     /\ InDecGrammar(Stripped(pInput))) =>
     LET t == Stripped(pInput)
         n == Denotes(DecBody(t), 10)
     IN /\ ToInt(pResult) = (IF t[1] = "-" THEN 0 - n ELSE n)
        /\ \A i \in 0..Len(pInput), c \in Separators :
             parseInput(Insert(pInput, i, c), "dec") = pResult
        /\ parseInput(<<" ", " ", "1", "_", "2", "3", "4", " ", " ">>, "dec")
             = MkBig(FALSE, <<210, 4>>)
        /\ SumBytes(<<210, 4>>) = 1234

\* a negative number with separators between the sign and the digit
C7_Witness ==
  /\ "parseInput" \in done /\ pType = "dec"
  /\ pInput = <<"-", "_", "9">>
  /\ pResult = [neg |-> TRUE, mag |-> <<9>>]

----------------------------------------------------------------------------
(* Properties of the interpretation table (Spec) *)

\* the bytes each interpretation needs
BytesNeeded ==
  [int8 |-> 1, uint8 |-> 1, int16 |-> 2, uint16 |-> 2, int32 |-> 4,
   uint32 |-> 4, float32 |-> 4, int64 |-> 8, uint64 |-> 8, float64 |-> 8]

IsNull(x) == x.tag = "null"

IsDash(c) == c.tag = "string" /\ "text" \in DOMAIN c /\ c.text = "-"

\* C9: with n = min(encoded length, 8) bytes available, an interpretation
\* that needs k bytes is null (rendered '-') if and only if n < k and is a
\* computed value otherwise; zero is never shown as unavailable and
\* unavailable is never shown as 0.
C9_UnavailableExplicit ==
  LET n == Min(Len(memoryBytes), 8)
      cells == tableCells(interpretations, byteWidth)
  IN /\ \A r \in DOMAIN BytesNeeded :
          /\ IsNull(interpretations[r]) <=> n < BytesNeeded[r]
          /\ r \in DOMAIN cells => (IsDash(cells[r]) <=> n < BytesNeeded[r])
     /\ Len(memoryBytes) = 4 =>
          /\ IsNull(interpretations.int64)
          /\ interpretations.int32.tag = "number"

\* the value zero is shown as a number while Int32 is unavailable
C9_Witness ==
  /\ rawValue = Zero
  /\ Len(memoryBytes) = 2
  /\ interpretations.int16 = Num(Zero)
  /\ ~IsDash(tableCells(interpretations, byteWidth).int16)
  /\ IsNull(interpretations.int32)
  /\ IsDash(tableCells(interpretations, byteWidth).int32)

UintName == [k \in {1, 2, 4, 8} |->
  CASE k = 1 -> "uint8" [] k = 2 -> "uint16" [] k = 4 -> "uint32"
    [] k = 8 -> "uint64"]

IntName == [k \in {1, 2, 4, 8} |->
  CASE k = 1 -> "int8" [] k = 2 -> "int16" [] k = 4 -> "int32"
    [] k = 8 -> "int64"]

\* -2^(8k-1) <= s < 2^(8k-1)
InSignedRange(s, k) ==
  /\ Len(s.mag) <= k
  /\ Len(s.mag) = k =>
       \/ s.mag[k] < 128
       \/ /\ s.neg /\ s.mag[k] = 128
          /\ \A i \in 1..(k - 1) : s.mag[i] = 0

\* C10: for N in {8, 16, 32, 64} with k = N / 8 <= min(L, 8), UintN is the
\* unsigned number formed by memory bytes 0..k-1 in the active order and
\* IntN is the integer of [-2^(N-1), 2^(N-1)) congruent to it modulo 2^N;
\* under Little endian UintN = v mod 2^N, under Big endian UintN is the
\* most-significant k bytes of the L-byte encoding of v.
C10_IntegerReinterpretation ==
  /\ \A k \in {1, 2, 4, 8} :
       k <= Min(dynamicByteLength, 8) =>
         LET L == dynamicByteLength
             u == interpretations[UintName[k]].val
             s == interpretations[IntName[k]].val
             first == SubSeq(memoryBytes, 1, k)
             formed == IF isLittleEndian THEN first ELSE Reverse(first)
             enc == ModDigits(rawValue, L)
         IN /\ ~u.neg /\ u.mag = Canon(formed)
            /\ InSignedRange(s, k)
            /\ ModDigits(s, k) = ModDigits(u, k)
            /\ isLittleEndian => u.mag = Canon(ModDigits(rawValue, k))
            /\ ~isLittleEndian => u.mag = Canon(SubSeq(enc, L - k + 1, L))
  /\ (rawValue = MkBig(FALSE, <<120, 86, 52, 18>>) /\ isLittleEndian
        /\ dynamicByteLength = 4) =>
       /\ interpretations.int32 = Num(rawValue)
       /\ interpretations.uint32 = Num(rawValue)
       /\ ToInt(rawValue) = 305419896

\* big endian, a value of 9 bytes padded to 12: Uint32 is the top four bytes
C10_Witness ==
  /\ ~isLittleEndian
  /\ dynamicByteLength = 12
  /\ Len(rawValue.mag) = 9
  /\ interpretations.uint32 = Num(MkBig(FALSE, <<255>>))
  /\ interpretations.uint64 = Big(MkBig(FALSE, <<255, 255, 255, 255, 255>>))

----------------------------------------------------------------------------
(* Properties of the encoded length (Spec) *)

\* the memory bytes, least-significant first
BySignificance(bytes, isLE) == IF isLE THEN bytes ELSE Reverse(bytes)

\* C11: for a non-negative value the padded length loses nothing: the L
\* displayed bytes read as an unsigned integer in the selected order give
\* exactly v, and a value below 256^W is shown with exactly W bytes.
C11_LengthAdequateNonNegative ==
  ~rawValue.neg =>
     /\ Len(memoryBytes) = dynamicByteLength
     /\ Canon(BySignificance(memoryBytes, isLittleEndian)) = rawValue.mag
     /\ FitsInt(rawValue) =>
          SumBytes(BySignificance(memoryBytes, isLittleEndian))
            = ToInt(rawValue)
     /\ Len(rawValue.mag) <= byteWidth => Len(memoryBytes) = byteWidth
     /\ (rawValue = MkBig(FALSE, <<120, 86, 52, 18>>) /\ byteWidth = 4) =>
          memoryBytes = (IF isLittleEndian THEN <<120, 86, 52, 18>>
                         ELSE <<18, 52, 86, 120>>)

\* 305419896 at 32-bit, big endian
C11_Witness ==
  /\ rawValue = MkBig(FALSE, <<120, 86, 52, 18>>)
  /\ byteWidth = 4
  /\ ~isLittleEndian
  /\ memoryBytes = <<18, 52, 86, 120>>

\* C12: the encoded length is L = max(W, ceil(calculateMinBytes(v) / W) * W):
\* a positive multiple of W with L >= W, L >= calculateMinBytes(v) and
\* L < calculateMinBytes(v) + W.
C12_PaddedLength ==
  LET W == byteWidth
      L == dynamicByteLength
      m == calculateMinBytes(rawValue)
      q == CHOOSE n \in 1..m : n * W >= m /\ (n - 1) * W < m
  IN /\ W \in {2, 4, 8}
     /\ L = Max(W, q * W)
     /\ L > 0 /\ L % W = 0
     /\ L >= W /\ L >= m /\ L < m + W
     /\ Len(memoryBytes) = L

\* a value of five bytes at 32-bit is padded to eight
C12_Witness ==
  /\ byteWidth = 4
  /\ Len(rawValue.mag) = 5
  /\ dynamicByteLength = 8

\* -2^(8L-1) <= v < 2^(8L-1), in digits
FitsSigned(v, L) ==
  /\ Len(v.mag) <= L
  /\ Len(v.mag) = L =>
       \/ v.mag[L] < 128
       \/ /\ v.neg /\ v.mag[L] = 128
          /\ \A i \in 1..(L - 1) : v.mag[i] = 0

\* the L-byte two's complement reading of bytes given least-significant first
SignedReading(d) ==
  IF d[Len(d)] >= 128 THEN MkBig(TRUE, Complement(d, 0)) ELSE MkBig(FALSE, d)

\* C15: for a negative value the padded length (computed from |v| only) is
\* adequate: the L displayed bytes read in the selected order as an L-byte
\* two's complement integer give exactly v, i.e. v >= -2^(8L-1).
C15_LengthAdequateNegative ==
  rawValue.neg =>
     /\ SignedReading(BySignificance(memoryBytes, isLittleEndian)) = rawValue
     /\ FitsSigned(rawValue, dynamicByteLength)

----------------------------------------------------------------------------
(* Properties of the significance rank and of zero (SpecBytes) *)

\* C13: the significance rank of position p among L bytes is p under Little
\* and L-1-p under Big, it ranges over 0..L-1 bijectively, and for every
\* integer v the byte at position p of bigIntToBytes(v, L, order) is
\* floor((v mod 256^L) / 256^rank) mod 256; the colour follows the rank.
C13_SignificanceRank ==
  ("bigIntToBytes" \in done /\ bLength >= 1) =>
     LET L == bLength
         rank == [p \in 0..(L - 1) |-> significanceIndexOf(p, L, bLittle)]
     IN /\ \A p \in 0..(L - 1) :
             rank[p] = (IF bLittle THEN p ELSE L - 1 - p)
        /\ { rank[p] : p \in 0..(L - 1) } = 0..(L - 1)
        /\ \A p, q \in 0..(L - 1) : rank[p] = rank[q] => p = q
        /\ \A p \in 0..(L - 1) :
             /\ bBytes[p + 1] = ModDigits(bValue, L)[rank[p] + 1]
             /\ (FitsInt(bValue) /\ L <= 3) =>
                  bBytes[p + 1] =
                    ((ToInt(bValue) % Pow(256, L)) \div Pow(256, rank[p]))
                      % 256
             /\ ByteCard(p, bBytes[p + 1], L, bLittle, p).significance
                  = rank[p]
             /\ getByteBorderColor(p, L, bLittle)
                  = BorderColors[(rank[p] % 8) + 1]
             /\ getByteColor(p, L, bLittle)
                  = BackgroundColors[(rank[p] % 8) + 1]
             /\ getByteBorderColor(p, L, bLittle)
                  = getByteBorderColor(L - 1 - p, L, ~bLittle)

\* big endian, three bytes of a negative value
C13_Witness ==
  /\ "bigIntToBytes" \in done /\ ~bLittle
  /\ bValue = [neg |-> TRUE, mag |-> <<1, 1>>]
  /\ bLength = 3
  /\ bBytes = <<255, 254, 255>>
  /\ getByteBorderColor(0, 3, bLittle) = "border-amber-500"

\* C14: bigIntToBytes(0, L, order) is a sequence of exactly L bytes, all 0,
\* for every L >= 1 and either order.
C14_ZeroBytes ==
  ("bigIntToBytes" \in done /\ bValue = Zero /\ bLength >= 1) =>
     /\ Len(bBytes) = bLength
     /\ \A i \in 1..Len(bBytes) : bBytes[i] = 0

C14_Witness ==
  /\ "bigIntToBytes" \in done /\ ~bLittle
  /\ bValue = Zero
  /\ bLength = 3
  /\ bBytes = <<0, 0, 0>>

----------------------------------------------------------------------------
(* Properties of BitGrid (SpecBits) *)

RECURSIVE SumBits(_)
\* sum over i of bit_i * 2^(7-i), for bits given most-significant first
SumBits(bits) ==
  IF bits = <<>> THEN 0
  ELSE bits[Len(bits)] + 2 * SumBits(SubSeq(bits, 1, Len(bits) - 1))

\* C17: for a byte b in 0..255 the bit shown at index i in 0..7 is
\* floor(b / 2^(7-i)) mod 2, each bit is 0 or 1, the bits weighted by
\* 2^(7-i) sum to b, and the byte order and position play no part.
C17_BitDecomposition ==
  "BitGrid" \in done =>
     /\ Len(gBits) = 8
     /\ \A i \in 0..7 :
          /\ gBits[i + 1] \in {0, 1}
          /\ gBits[i + 1] = (gByte \div Pow(2, 7 - i)) % 2
     /\ SumBits(gBits) = gByte
     /\ \A le \in BOOLEAN, p \in 0..1 :
          ByteCard(p, gByte, 2, le, p).bits = gBits

C17_Witness ==
  /\ "BitGrid" \in done
  /\ gByte = 128
  /\ gBits = <<1, 0, 0, 0, 0, 0, 0, 0>>

----------------------------------------------------------------------------
(* Properties of the rendered state (Spec) *)

inputTuple == <<inputStr, inputType, isLittleEndian, byteWidth>>

\* the derived values computed from scratch from the current input tuple
DerivedFromScratch ==
  LET v == parseInput(inputStr, inputType)
      L == dynamicByteLengthOf(v, byteWidth)
      bytes == bigIntToBytes(v, L, isLittleEndian)
  IN /\ rawValue = v
     /\ dynamicByteLength = L
     /\ memoryBytes = bytes
     /\ wordChunks = wordChunksOf(bytes, byteWidth)
     /\ interpretations = interpretationsOf(bytes, isLittleEndian)

\* C16: after any sequence of UI events the parsed value, padded length,
\* byte sequence, word chunks and interpretations equal those computed from
\* scratch from the current (inputStr, inputType, isLittleEndian, byteWidth);
\* an event that leaves this tuple unchanged (view unit, help, tooltip, the
\* same byte order or word width again) leaves all of them unchanged.
C16_DerivedFromInputs ==
  /\ [] DerivedFromScratch
  /\ [][inputTuple' = inputTuple => derivedVars' = derivedVars]_vars

\* word view, help open, a tooltip shown, after the format, the order and
\* the width were all switched
C16_Witness ==
  /\ viewUnit = "word" /\ isHelpOpen /\ tooltip # NoTooltip
  /\ inputType = "hex" /\ ~isLittleEndian /\ byteWidth = 2
  /\ Len(rawValue.mag) = 4
  /\ Len(wordChunks) = 2
  /\ DerivedFromScratch

\* the grid that is rendered
grid ==
  gridOf(viewUnit, memoryBytes, dynamicByteLength, wordChunks, byteWidth,
         isLittleEndian)

\* C18: the byte sequence of length L is split into exactly L / W chunks of
\* exactly W bytes, chunk k covering addresses k*W .. k*W+W-1; the value of
\* chunk k is its W bytes read in the active order: word k of v mod 256^L
\* under Little endian, word L/W-1-k under Big endian; it lies in
\* 0 .. 256^W - 1.
C18_WordChunks ==
  LET L == dynamicByteLength
      W == byteWidth
      n == L \div W
      cards == wordCardsOf(wordChunks, byteWidth, isLittleEndian)
      enc == ModDigits(rawValue, L)
  IN /\ L % W = 0
     /\ Len(wordChunks) = n /\ Len(cards) = n
     /\ viewUnit = "word" => grid.cards = cards
     /\ \A k \in 0..(n - 1) :
          LET j == IF isLittleEndian THEN k ELSE n - 1 - k
              card == cards[k + 1]
          IN /\ Len(wordChunks[k + 1]) = W
             /\ wordChunks[k + 1] = SubSeq(memoryBytes, k * W + 1, k * W + W)
             /\ card.addrFirst = k * W /\ card.addrLast = k * W + W - 1
             /\ card.value = MkBig(FALSE, SubSeq(enc, W * j + 1, W * j + W))
             /\ ~card.value.neg /\ Len(card.value.mag) <= W
             /\ Len(card.hexString) = 2 * W

\* word view, big endian: nine bytes of 0xFF padded to three 32-bit words
C18_Witness ==
  /\ viewUnit = "word" /\ ~isLittleEndian /\ byteWidth = 4
  /\ dynamicByteLength = 12
  /\ Len(grid.cards) = 3
  /\ grid.cards[1].value = MkBig(FALSE, <<255>>)
  /\ grid.cards[1].hexString = <<"0", "0", "0", "0", "0", "0", "F", "F">>
  /\ grid.cards[3].addrFirst = 8

\* C19: Int8, Uint8, Int16 and Uint16 are never unavailable; the Int64,
\* Uint64 and Float64 rows are rendered only at 64-bit and are then never
\* unavailable; Int32, Uint32 and Float32 are unavailable exactly when the
\* word width is 16-bit and |value| < 65536.
C19_RowAvailability ==
  LET cells == tableCells(interpretations, byteWidth)
      small == Len(rawValue.mag) <= 2
  IN /\ dynamicByteLength >= byteWidth /\ byteWidth >= 2
     /\ FitsInt(rawValue) => (small <=> SumBytes(rawValue.mag) < 65536)
     /\ ~FitsInt(rawValue) => ~small
     /\ \A r \in {"int8", "uint8", "int16", "uint16"} :
          /\ r \in DOMAIN cells
          /\ ~IsNull(interpretations[r]) /\ ~IsDash(cells[r])
     /\ \A r \in {"int64", "uint64", "float64"} :
          /\ r \in DOMAIN cells <=> byteWidth = 8
          /\ byteWidth = 8 =>
               ~IsNull(interpretations[r]) /\ ~IsDash(cells[r])
     /\ \A r \in {"int32", "uint32", "float32"} :
          /\ r \in DOMAIN cells
          /\ IsNull(interpretations[r]) <=> (byteWidth = 2 /\ small)
          /\ IsDash(cells[r]) <=> (byteWidth = 2 /\ small)

\* 16-bit with a value of three bytes: the 32-bit rows are available
C19_Witness ==
  /\ byteWidth = 2
  /\ Len(rawValue.mag) = 3
  /\ ~IsNull(interpretations.int32)
  /\ ~IsDash(tableCells(interpretations, byteWidth).float32)
  /\ "int64" \notin DOMAIN tableCells(interpretations, byteWidth)

\* C20: in byte view exactly one card is labelled LSB and exactly one,
\* another card, MSB; the LSB card is at position 0 under Little endian and
\* L-1 under Big endian and holds (v mod 256^L) mod 256, the MSB card is at
\* the opposite end and holds floor((v mod 256^L) / 256^(L-1)); no other
\* card is labelled.
C20_LsbMsbLabels ==
  viewUnit = "byte" =>
     LET cards == grid.cards
         L == dynamicByteLength
         enc == ModDigits(rawValue, L)
         lsb == { n \in 1..Len(cards) : cards[n].label = "LSB" }
         msb == { n \in 1..Len(cards) : cards[n].label = "MSB" }
         lsbAt == IF isLittleEndian THEN 1 ELSE L
         msbAt == IF isLittleEndian THEN L ELSE 1
     IN /\ grid.unit = "byte" /\ Len(cards) = L
        /\ lsb = {lsbAt} /\ msb = {msbAt} /\ lsbAt # msbAt
        /\ cards[lsbAt].index = lsbAt - 1 /\ cards[msbAt].index = msbAt - 1
        /\ cards[lsbAt].value = enc[1]
        /\ cards[msbAt].value = enc[L]
        /\ (FitsInt(rawValue) /\ L = 2) =>
             /\ cards[lsbAt].value = (ToInt(rawValue) % Pow(256, L)) % 256
             /\ cards[msbAt].value
                  = (ToInt(rawValue) % Pow(256, L)) \div Pow(256, L - 1)
        /\ \A n \in 1..Len(cards) :
             n \notin {lsbAt, msbAt} => cards[n].label = ""

\* byte view, big endian, a negative value in four bytes
C20_Witness ==
  /\ viewUnit = "byte" /\ ~isLittleEndian
  /\ rawValue.neg /\ dynamicByteLength = 4
  /\ grid.cards[4].label = "LSB"
  /\ grid.cards[1].label = "MSB"
  /\ grid.cards[1].value = 255

====
